---- MODULE Spec2Model ----
(***************************************************************************)
(* Model of speech-commands/src/dataset.ts: the Dataset class (examples    *)
(* keyed by uid plus the label2Ids index), its binary serialization,       *)
(* getSpectrogramsAsTensors and getValidWindows.                           *)
(*                                                                         *)
(* Conventions for JavaScript values:                                      *)
(*   - an optional number (null or n) is <<>> or <<n>>;                    *)
(*   - `undefined`/`null` objects are the record Undefined; an absent      *)
(*     property is an absent record field;                                 *)
(*   - a Float32 value is its 32-bit pattern (patterns below 2^31 are    *)
(*     used, the range of the checker's integers);                         *)
(*   - a typed array is the sequence of its elements and spans its whole   *)
(*     buffer (byteOffset 0), as the arrays deserializeExample builds do;  *)
(*   - an ArrayBuffer is a sequence of numbers (bytes; one number per      *)
(*     token for the JSON manifest text);                                  *)
(*   - a uid string is the number the generator produced it from;          *)
(*   - a call's status is "ok", "assert" (tf.util.assert threw), "throw"   *)
(*     (an explicit throw) or the name of the runtime error raised.        *)
(***************************************************************************)
EXTENDS Integers, Sequences, FiniteSets, TLC

VARIABLES
    examples,     \* Dataset.examples of each dataset object: uid -> Example
    label2Ids,    \* Dataset.label2Ids of each dataset object: label -> uids
    uidCounter,   \* process-wide state of getUID
    issued,       \* history: every uid addExample has returned, in order
    ret,          \* outcome of the last call on a dataset
    winArgs,      \* arguments of the getValidWindows call under study
    winRet,       \* its outcome
    winFrame      \* its activation: position in the code and local variables

vars ==
    <<examples, label2Ids, uidCounter, issued, ret, winArgs, winRet, winFrame>>
dsVars == <<examples, label2Ids, uidCounter, issued, ret>>
winVars == <<winArgs, winRet, winFrame>>

(***************************************************************************)
(* Bounds                                                                  *)
(***************************************************************************)
MaxUid == 3           \* uids handed out in one behaviour
MaxSnippet == 10      \* largest snippetLength / windowLength tried
MaxHop == 4           \* largest windowHop tried
MaxShuffle == 3       \* largest batch whose shuffles are followed

(***************************************************************************)
(* JavaScript helpers                                                      *)
(***************************************************************************)
Undefined == [undefined |-> TRUE]
IsNullish(x) == "undefined" \in DOMAIN x

Null == <<>>
Some(n) == <<n>>
\* ToNumber of an optional number, as relational operators apply it: null -> 0
ToNumber(x) == IF x = Null THEN 0 ELSE x[1]

EmptyMap == [k \in {} |-> k]

Min(a, b) == IF a < b THEN a ELSE b
Max(a, b) == IF a > b THEN a ELSE b

(***************************************************************************)
(* getValidWindows                                                         *)
(***************************************************************************)
\* faulty variant of EvenlySpaced: the loop stops one window early (< for <=)
RECURSIVE EvenlySpaced_Strict(_, _, _, _, _)
EvenlySpaced_Strict(begin, windows, snippetLength, windowLength, windowHop) ==
    IF begin + windowLength < snippetLength
    THEN EvenlySpaced_Strict(begin + windowHop,
                             Append(windows, <<begin, begin + windowLength>>),
                             snippetLength, windowLength, windowHop)
    ELSE windows

\* the while loop of the unfocused branch
RECURSIVE EvenlySpaced(_, _, _, _, _)
EvenlySpaced(begin, windows, snippetLength, windowLength, windowHop) ==
    IF begin + windowLength <= snippetLength
    THEN EvenlySpaced(begin + windowHop,
                      Append(windows, <<begin, begin + windowLength>>),
                      snippetLength, windowLength, windowHop)
    ELSE windows

\* faulty variant of InitialLeft: the half window is rounded up
InitialLeft_CeilHalf(snippetLength, focus, windowLength) ==
    LET leftHalf == (windowLength + 1) \div 2
        left == focus - leftHalf
    IN  IF left < 0 THEN 0
        ELSE IF left + windowLength > snippetLength
             THEN snippetLength - windowLength
             ELSE left

\* left after clamping the centered window into the snippet
InitialLeft(snippetLength, focus, windowLength) ==
    LET leftHalf == windowLength \div 2
        left == focus - leftHalf
    IN  IF left < 0 THEN 0
        ELSE IF left + windowLength > snippetLength
             THEN snippetLength - windowLength
             ELSE left

\* faulty variant of BackwardWalk: walks back without the focus test
RECURSIVE BackwardWalk_NoFocusTest(_, _, _, _)
BackwardWalk_NoFocusTest(left, focus, windowLength, windowHop) ==
    IF left - windowHop < 0
    THEN left
    ELSE BackwardWalk_NoFocusTest(left - windowHop, focus, windowLength,
                                  windowHop)

\* the `while (true)` loop walking left backwards
RECURSIVE BackwardWalk(_, _, _, _)
BackwardWalk(left, focus, windowLength, windowHop) ==
    IF left - windowHop < 0 \/ focus >= left - windowHop + windowLength
    THEN left
    ELSE BackwardWalk(left - windowHop, focus, windowLength, windowHop)

\* faulty variant of ForwardWalk: a window ending at the snippet's end does
\* not fit (< for <=)
RECURSIVE ForwardWalk_StrictFit(_, _, _, _, _, _)
ForwardWalk_StrictFit(left, windows, snippetLength, focus, windowLength, windowHop) ==
    IF left + windowLength < snippetLength
    THEN IF focus < left
         THEN windows
         ELSE ForwardWalk_StrictFit(left + windowHop,
                                    Append(windows,
                                           <<left, left + windowLength>>),
                                    snippetLength, focus, windowLength,
                                    windowHop)
    ELSE windows

\* the final while loop emitting the windows
RECURSIVE ForwardWalk(_, _, _, _, _, _)
ForwardWalk(left, windows, snippetLength, focus, windowLength, windowHop) ==
    IF left + windowLength <= snippetLength
    THEN IF focus < left
         THEN windows
         ELSE ForwardWalk(left + windowHop,
                          Append(windows, <<left, left + windowLength>>),
                          snippetLength, focus, windowLength, windowHop)
    ELSE windows

\* faulty variant of ValidWindowsArgsOk: windowLength must be < snippetLength
ValidWindowsArgsOk_StrictLength(snippetLength, focusIndex, windowLength, windowHop) ==
    /\ snippetLength > 0
    /\ focusIndex # Null => focusIndex[1] >= 0
    /\ windowLength > 0
    /\ windowHop > 0
    /\ windowLength < snippetLength
    /\ ToNumber(focusIndex) < snippetLength

\* faulty variant of ValidWindowsArgsOk: the last assert is missing
ValidWindowsArgsOk_NoFocusLimit(snippetLength, focusIndex, windowLength, windowHop) ==
    /\ snippetLength > 0
    /\ focusIndex # Null => focusIndex[1] >= 0
    /\ windowLength > 0
    /\ windowHop > 0
    /\ windowLength <= snippetLength

\* the six tf.util.assert calls; inputs are integers, so Number.isInteger holds
ValidWindowsArgsOk(snippetLength, focusIndex, windowLength, windowHop) ==
    /\ snippetLength > 0
    /\ focusIndex # Null => focusIndex[1] >= 0
    /\ windowLength > 0
    /\ windowHop > 0
    /\ windowLength <= snippetLength
    /\ ToNumber(focusIndex) < snippetLength

getValidWindows(snippetLength, focusIndex, windowLength, windowHop) ==
    IF ~ValidWindowsArgsOk(snippetLength, focusIndex, windowLength, windowHop)
    THEN [status |-> "assert", windows |-> <<>>]
    ELSE IF windowLength = snippetLength
    THEN [status |-> "ok", windows |-> << <<0, snippetLength>> >>]
    ELSE IF focusIndex = Null
    THEN [status |-> "ok",
          windows |-> EvenlySpaced(0, <<>>, snippetLength, windowLength,
                                   windowHop)]
    ELSE LET focus == focusIndex[1]
             left0 == InitialLeft(snippetLength, focus, windowLength)
             left1 == BackwardWalk(left0, focus, windowLength, windowHop)
         IN  [status |-> "ok",
              windows |-> ForwardWalk(left1, <<>>, snippetLength, focus,
                                      windowLength, windowHop)]

(***************************************************************************)
(* Specification of the calls of getValidWindows                           *)
(***************************************************************************)
WinLengths == -1 .. MaxSnippet
WinHops == -1 .. MaxHop
WinFocus == {Null} \cup {Some(f) : f \in -1 .. MaxSnippet}

NoCall == [status |-> "none", windows |-> <<>>]

WinArgsSet ==
    [snippetLength : WinLengths, focusIndex : WinFocus,
     windowLength : WinLengths, windowHop : WinHops]

CallGetValidWindows ==
    /\ winRet = NoCall
    /\ winRet' = getValidWindows(winArgs.snippetLength, winArgs.focusIndex,
                                 winArgs.windowLength, winArgs.windowHop)
    /\ UNCHANGED <<winArgs, winFrame, dsVars>>

(***************************************************************************)
(* getValidWindows statement by statement: one action per loop iteration   *)
(***************************************************************************)
\* the activation before the first statement; begin, left and windows are
\* the function's locals (begin and left hold 0 until they are declared)
EntryFrame == [pc |-> "entry", begin |-> 0, left |-> 0, windows |-> <<>>]

\* faulty variant of BackwardBreak: the test against 0 is missing
BackwardBreak_NoZeroTest(left, focusIndex, windowLength, windowHop) ==
    focusIndex >= left - windowHop + windowLength

\* the break condition of the `while (true)` loop
BackwardBreak(left, focusIndex, windowLength, windowHop) ==
    \/ left - windowHop < 0
    \/ focusIndex >= left - windowHop + windowLength

\* the asserts, the windowLength === snippetLength return and the statements
\* up to the first loop test
EnterGetValidWindows ==
    /\ winFrame.pc = "entry"
    /\ LET L == winArgs.snippetLength
           W == winArgs.windowLength
       IN  IF ~ValidWindowsArgsOk(L, winArgs.focusIndex, W, winArgs.windowHop)
           THEN /\ winRet' = [status |-> "assert", windows |-> <<>>]
                /\ winFrame' = [winFrame EXCEPT !.pc = "return"]
           ELSE IF W = L
           THEN /\ winRet' = [status |-> "ok", windows |-> << <<0, L>> >>]
                /\ winFrame' = [winFrame EXCEPT !.pc = "return"]
           ELSE IF winArgs.focusIndex = Null
           THEN /\ winFrame' = [winFrame EXCEPT !.pc = "scan", !.begin = 0]
                /\ UNCHANGED winRet
           ELSE /\ winFrame' =
                       [winFrame EXCEPT
                           !.pc = "back",
                           !.left = InitialLeft(L, winArgs.focusIndex[1], W)]
                /\ UNCHANGED winRet
    /\ UNCHANGED <<winArgs, dsVars>>

\* one test of the unfocused while loop, with its body or the return
ScanStep ==
    /\ winFrame.pc = "scan"
    /\ IF winFrame.begin + winArgs.windowLength <= winArgs.snippetLength
       THEN /\ winFrame' =
                   [winFrame EXCEPT
                       !.windows =
                           Append(@, <<winFrame.begin,
                                       winFrame.begin + winArgs.windowLength>>),
                       !.begin = @ + winArgs.windowHop]
            /\ UNCHANGED winRet
       ELSE /\ winRet' = [status |-> "ok", windows |-> winFrame.windows]
            /\ winFrame' = [winFrame EXCEPT !.pc = "return"]
    /\ UNCHANGED <<winArgs, dsVars>>

\* one iteration of the `while (true)` loop
BackStep ==
    /\ winFrame.pc = "back"
    /\ IF BackwardBreak(winFrame.left, winArgs.focusIndex[1],
                        winArgs.windowLength, winArgs.windowHop)
       THEN winFrame' = [winFrame EXCEPT !.pc = "forward"]
       ELSE winFrame' = [winFrame EXCEPT !.left = @ - winArgs.windowHop]
    /\ UNCHANGED <<winArgs, winRet, dsVars>>

\* one test of the final while loop, with its body, the break or the return
ForwardStep ==
    /\ winFrame.pc = "forward"
    /\ IF /\ winFrame.left + winArgs.windowLength <= winArgs.snippetLength
          /\ ~(winArgs.focusIndex[1] < winFrame.left)
       THEN /\ winFrame' =
                   [winFrame EXCEPT
                       !.windows =
                           Append(@, <<winFrame.left,
                                       winFrame.left + winArgs.windowLength>>),
                       !.left = @ + winArgs.windowHop]
            /\ UNCHANGED winRet
       ELSE /\ winRet' = [status |-> "ok", windows |-> winFrame.windows]
            /\ winFrame' = [winFrame EXCEPT !.pc = "return"]
    /\ UNCHANGED <<winArgs, dsVars>>

(***************************************************************************)
(* Examples                                                                *)
(***************************************************************************)
BACKGROUND_NOISE_TAG == "_background_noise_"

Labels == {BACKGROUND_NOISE_TAG, "yes"}

\* first UTF-16 code unit of a label: the key Array.prototype.sort() orders
\* these labels by ('_' is 95, 'y' is 121)
LabelCode(label) == IF label = BACKGROUND_NOISE_TAG THEN 95 ELSE 121
LabelOfCode(code) == CHOOSE l \in Labels : LabelCode(l) = code

\* Float32 bit patterns: 1.0, 2.0, 0.5, 0.0 and two denormals
Spectrogram1 == [frameSize |-> 1, data |-> <<1065353216, 1073741824>>]
Spectrogram2 ==
    [frameSize |-> 2, data |-> <<0, 1056964608, 1065353216, 0, 7, 1073741824>>]
RawAudio1 == [data |-> <<1056964608, 258>>, sampleRateHz |-> 44100]

\* examples a caller may add
ExamplePool ==
    { [label |-> "yes", spectrogram |-> Spectrogram1],
      [label |-> "yes", spectrogram |-> Spectrogram2, rawAudio |-> RawAudio1],
      [label |-> BACKGROUND_NOISE_TAG, spectrogram |-> Spectrogram1,
       rawAudio |-> RawAudio1],
      [label |-> BACKGROUND_NOISE_TAG, spectrogram |-> Spectrogram2] }

\* arguments addExample rejects: no example, no label, empty label
BadExamplePool ==
    { Undefined,
      [spectrogram |-> Spectrogram1],
      [label |-> "", spectrogram |-> Spectrogram1] }

\* spectrograms of 9 and 10 frames of size 1 (denormal bit patterns): the
\* loudest frame is frame 4 of the first, frames 2 and 7 of the second
Spectrogram9 == [frameSize |-> 1, data |-> <<1, 1, 1, 1, 5, 1, 1, 1, 1>>]
Spectrogram10 == [frameSize |-> 1, data |-> <<3, 1, 6, 1, 1, 2, 1, 6, 1, 1>>]
\* 2 frames of size 2, with means 2 and 3
SpectrogramWide == [frameSize |-> 2, data |-> <<1, 3, 2, 4>>]

\* examples a caller may add before asking for tensors
BatchExamplePool ==
    { [label |-> "yes", spectrogram |-> Spectrogram9],
      [label |-> "yes", spectrogram |-> Spectrogram10],
      [label |-> BACKGROUND_NOISE_TAG, spectrogram |-> Spectrogram9],
      [label |-> BACKGROUND_NOISE_TAG, spectrogram |-> Spectrogram10],
      [label |-> "yes", spectrogram |-> SpectrogramWide] }

HasLabel(example) == "label" \in DOMAIN example
HasRawAudio(example) == "rawAudio" \in DOMAIN example

NumFrames(spectrogram) == Len(spectrogram.data) \div spectrogram.frameSize

(***************************************************************************)
(* Dataset: a dataset object is the record [examples, label2Ids]           *)
(***************************************************************************)
Datasets == {"A", "B"}

DS(s) == [examples |-> examples[s], label2Ids |-> label2Ids[s]]
EmptyDataset == [examples |-> EmptyMap, label2Ids |-> EmptyMap]

\* this.examples[id]: undefined when the key is absent
Lookup(d, id) == IF id \in DOMAIN d.examples THEN d.examples[id] ELSE Undefined

\* the next uid and the generator's state after the call
getUID(ctr) == [uid |-> ctr, next |-> ctr + 1]

\* [...set].sort() over labels
RECURSIVE SortLabels(_)
SortLabels(set) ==
    IF set = {} THEN <<>>
    ELSE LET first == CHOOSE l \in set :
                         \A m \in set : LabelCode(l) <= LabelCode(m)
         IN  <<first>> \o SortLabels(set \ {first})

getVocabulary(d) ==
    SortLabels({d.examples[uid].label : uid \in DOMAIN d.examples})

size(d) == Cardinality(DOMAIN d.examples)
empty(d) == size(d) = 0

getExampleCounts(d) ==
    [label \in {d.examples[uid].label : uid \in DOMAIN d.examples} |->
        Cardinality({uid \in DOMAIN d.examples : d.examples[uid].label = label})]

\* label is Null (<<>>) or <<a label>>
getExamples(d, label) ==
    IF label = Null \/ label[1] \notin DOMAIN d.label2Ids
    THEN [status |-> "assert", output |-> <<>>]
    ELSE LET ids == d.label2Ids[label[1]]
         IN  [status |-> "ok",
              output |-> [i \in 1 .. Len(ids) |->
                             [uid |-> ids[i], example |-> Lookup(d, ids[i])]]]

\* faulty variant of addExample: an empty label is accepted
addExample_EmptyLabelAccepted(d, example, ctr) ==
    IF IsNullish(example) \/ ~HasLabel(example)
    THEN [status |-> "assert", d |-> d, ctr |-> ctr]
    ELSE LET g == getUID(ctr)
             buckets == IF example.label \in DOMAIN d.label2Ids
                        THEN d.label2Ids
                        ELSE (example.label :> <<>>) @@ d.label2Ids
         IN  [status |-> "ok", uid |-> g.uid, ctr |-> g.next,
              d |-> [examples |-> (g.uid :> example) @@ d.examples,
                     label2Ids |->
                         [buckets EXCEPT ![example.label] = Append(@, g.uid)]]]

\* faulty variant of addExample: the uid is taken from the dataset's size
\* instead of the generator's result
addExample_UidFromSize(d, example, ctr) ==
    IF IsNullish(example) \/ ~HasLabel(example) \/ example.label = ""
    THEN [status |-> "assert", d |-> d, ctr |-> ctr]
    ELSE LET g == [uid |-> size(d) + 1, next |-> getUID(ctr).next]
             buckets == IF example.label \in DOMAIN d.label2Ids
                        THEN d.label2Ids
                        ELSE (example.label :> <<>>) @@ d.label2Ids
         IN  [status |-> "ok", uid |-> g.uid, ctr |-> g.next,
              d |-> [examples |-> (g.uid :> example) @@ d.examples,
                     label2Ids |->
                         [buckets EXCEPT ![example.label] = Append(@, g.uid)]]]

addExample(d, example, ctr) ==
    IF IsNullish(example) \/ ~HasLabel(example) \/ example.label = ""
    THEN [status |-> "assert", d |-> d, ctr |-> ctr]
    ELSE LET g == getUID(ctr)
             buckets == IF example.label \in DOMAIN d.label2Ids
                        THEN d.label2Ids
                        ELSE (example.label :> <<>>) @@ d.label2Ids
         IN  [status |-> "ok", uid |-> g.uid, ctr |-> g.next,
              d |-> [examples |-> (g.uid :> example) @@ d.examples,
                     label2Ids |->
                         [buckets EXCEPT ![example.label] = Append(@, g.uid)]]]

\* Array.prototype.indexOf: 0-based, -1 when absent
IndexOf(seq, x) ==
    IF \E i \in 1 .. Len(seq) : seq[i] = x
    THEN (CHOOSE i \in 1 .. Len(seq) :
              seq[i] = x /\ \A j \in 1 .. i - 1 : seq[j] # x) - 1
    ELSE -1

\* seq.splice(index, 1); a negative index counts from the end
Splice1(seq, index) ==
    LET start == IF index < 0 THEN Max(Len(seq) + index, 0)
                 ELSE Min(index, Len(seq))
    IN  SubSeq(seq, 1, start) \o SubSeq(seq, start + 2, Len(seq))

DeleteKey(map, key) == [k \in DOMAIN map \ {key} |-> map[k]]

\* a removeExample that looks the uid up in the label index rather than in
\* examples
removeExample_IndexLookup(d, uid) ==
    IF \A l \in DOMAIN d.label2Ids :
           \A i \in 1 .. Len(d.label2Ids[l]) : d.label2Ids[l][i] # uid
    THEN [status |-> "throw", d |-> d]
    ELSE IF uid \notin DOMAIN d.examples
    THEN [status |-> "TypeError", d |-> d]
    ELSE LET label == d.examples[uid].label
             bucket == Splice1(d.label2Ids[label],
                               IndexOf(d.label2Ids[label], uid))
         IN  [status |-> "ok",
              d |-> [examples |-> DeleteKey(d.examples, uid),
                     label2Ids |->
                         IF Len(bucket) = 0
                         THEN DeleteKey(d.label2Ids, label)
                         ELSE [d.label2Ids EXCEPT ![label] = bucket]]]

removeExample(d, uid) ==
    IF uid \notin DOMAIN d.examples
    THEN [status |-> "throw", d |-> d]
    ELSE LET label == d.examples[uid].label
             remaining == DeleteKey(d.examples, uid)
         IN  IF label \notin DOMAIN d.label2Ids
             THEN [status |-> "TypeError",
                   d |-> [examples |-> remaining, label2Ids |-> d.label2Ids]]
             ELSE LET bucket == Splice1(d.label2Ids[label],
                                        IndexOf(d.label2Ids[label], uid))
                  IN  [status |-> "ok",
                       d |-> [examples |-> remaining,
                              label2Ids |->
                                  IF Len(bucket) = 0
                                  THEN DeleteKey(d.label2Ids, label)
                                  ELSE [d.label2Ids EXCEPT ![label] = bucket]]]

clear(d) == [examples |-> EmptyMap, label2Ids |-> d.label2Ids]

\* the examples merge() passes to addExample, in its iteration order; the
\* walk stops where getExamples would throw
RECURSIVE MergeInputs(_, _)
MergeInputs(d, vocab) ==
    IF vocab = <<>> THEN <<>>
    ELSE LET got == getExamples(d, Some(Head(vocab)))
         IN  IF got.status # "ok" THEN <<Undefined>>
             ELSE [i \in 1 .. Len(got.output) |-> got.output[i].example]
                  \o MergeInputs(d, Tail(vocab))

\* addExample over a list of examples, stopping at the first throw; uids
\* collects what the calls returned
RECURSIVE AddAll(_, _, _, _)
AddAll(d, inputs, ctr, uids) ==
    IF inputs = <<>>
    THEN [status |-> "ok", d |-> d, ctr |-> ctr, uids |-> uids]
    ELSE LET r == addExample(d, Head(inputs), ctr)
         IN  IF r.status # "ok"
             THEN [status |-> r.status, d |-> r.d, ctr |-> r.ctr,
                   uids |-> uids]
             ELSE AddAll(r.d, Tail(inputs), r.ctr, Append(uids, r.uid))

\* this.merge(dataset); same is `dataset === this`
merge(this, dataset, same, ctr) ==
    IF same THEN [status |-> "assert", d |-> this, ctr |-> ctr, uids |-> <<>>]
    ELSE AddAll(this, MergeInputs(dataset, getVocabulary(dataset)), ctr, <<>>)

(***************************************************************************)
(* ArrayBuffers                                                            *)
(***************************************************************************)
\* ArrayBuffer.prototype.slice(begin, end): both clamped to the buffer
Slice(buffer, begin, end) ==
    SubSeq(buffer, Min(begin, Len(buffer)) + 1, Min(end, Len(buffer)))

\* the four bytes of a 32-bit value (little-endian host)
Bytes32(v) ==
    <<v % 256, (v \div 256) % 256, (v \div 65536) % 256, v \div 16777216>>
Value32(b) == b[1] + 256 * b[2] + 65536 * b[3] + 16777216 * b[4]

\* typedArray.buffer of a Float32Array / Uint32Array holding `values`
RECURSIVE BufferOf(_)
BufferOf(values) ==
    IF values = <<>> THEN <<>>
    ELSE Bytes32(Head(values)) \o BufferOf(Tail(values))

\* the elements of new Float32Array(buffer); the constructor throws a
\* RangeError unless the byte length is a multiple of 4
Float32ArrayOk(buffer) == Len(buffer) % 4 = 0
Float32Array(buffer) ==
    [i \in 1 .. Len(buffer) \div 4 |-> Value32(SubSeq(buffer, 4 * i - 3, 4 * i))]

RECURSIVE concatenateArrayBuffers(_)
concatenateArrayBuffers(buffers) ==
    IF buffers = <<>> THEN <<>>
    ELSE Head(buffers) \o concatenateArrayBuffers(Tail(buffers))

(***************************************************************************)
(* Serialization                                                           *)
(***************************************************************************)
\* 'TFJSSCDS' as bytes
DATASET_SERIALIZATION_DESCRIPTOR == <<84, 70, 74, 83, 83, 67, 68, 83>>
DATASET_SERIALIZATION_VERSION == 1

HasRawSpec(spec) == "rawAudioNumSamples" \in DOMAIN spec

\* string2ArrayBuffer(JSON.stringify(manifest)): one number per JSON token;
\* an entry is label, spectrogramNumFrames, spectrogramFrameSize, then 0, or
\* 1 followed by rawAudioNumSamples and rawAudioSampleRateHz
SpecTokens(spec) ==
    <<LabelCode(spec.label), spec.spectrogramNumFrames,
      spec.spectrogramFrameSize>>
    \o (IF HasRawSpec(spec)
        THEN <<1, spec.rawAudioNumSamples, spec.rawAudioSampleRateHz>>
        ELSE <<0>>)

RECURSIVE manifest2Bytes(_)
manifest2Bytes(manifest) ==
    IF manifest = <<>> THEN <<>>
    ELSE SpecTokens(Head(manifest)) \o manifest2Bytes(Tail(manifest))

\* JSON.parse(arrayBuffer2String(bytes)) succeeds
RECURSIVE ManifestBytesOk(_)
ManifestBytesOk(bytes) ==
    \/ bytes = <<>>
    \/ /\ Len(bytes) >= 4
       /\ bytes[1] \in {LabelCode(l) : l \in Labels}
       /\ \/ bytes[4] = 0 /\ ManifestBytesOk(SubSeq(bytes, 5, Len(bytes)))
          \/ /\ bytes[4] = 1
             /\ Len(bytes) >= 6
             /\ ManifestBytesOk(SubSeq(bytes, 7, Len(bytes)))

RECURSIVE bytes2Manifest(_)
bytes2Manifest(bytes) ==
    IF bytes = <<>> THEN <<>>
    ELSE LET base == [label |-> LabelOfCode(bytes[1]),
                      spectrogramNumFrames |-> bytes[2],
                      spectrogramFrameSize |-> bytes[3]]
         IN  IF bytes[4] = 0
             THEN <<base>> \o bytes2Manifest(SubSeq(bytes, 5, Len(bytes)))
             ELSE << [label |-> base.label,
                      spectrogramNumFrames |-> base.spectrogramNumFrames,
                      spectrogramFrameSize |-> base.spectrogramFrameSize,
                      rawAudioNumSamples |-> bytes[5],
                      rawAudioSampleRateHz |-> bytes[6]] >>
                  \o bytes2Manifest(SubSeq(bytes, 7, Len(bytes)))

serializeExample(example) ==
    IF IsNullish(example)
    THEN [status |-> "TypeError"]
    ELSE LET base == [label |-> example.label,
                      spectrogramNumFrames |-> NumFrames(example.spectrogram),
                      spectrogramFrameSize |-> example.spectrogram.frameSize]
             data == BufferOf(example.spectrogram.data)
         IN  IF HasRawAudio(example)
             THEN [status |-> "ok",
                   spec |-> [label |-> base.label,
                             spectrogramNumFrames |-> base.spectrogramNumFrames,
                             spectrogramFrameSize |-> base.spectrogramFrameSize,
                             rawAudioNumSamples |-> Len(example.rawAudio.data),
                             rawAudioSampleRateHz |->
                                 example.rawAudio.sampleRateHz],
                   data |-> concatenateArrayBuffers(
                                <<data, BufferOf(example.rawAudio.data)>>)]
             ELSE [status |-> "ok", spec |-> base, data |-> data]

deserializeExample(spec, data) ==
    LET spectrogramBytes ==
            4 * spec.spectrogramFrameSize * spec.spectrogramNumFrames
        head == Slice(data, 0, spectrogramBytes)
        rest == Slice(data, spectrogramBytes, Len(data))
        spectrogram == [frameSize |-> spec.spectrogramFrameSize,
                        data |-> Float32Array(head)]
    IN  IF ~Float32ArrayOk(head) THEN [status |-> "RangeError"]
        ELSE IF ~HasRawSpec(spec)
        THEN [status |-> "ok",
              example |-> [label |-> spec.label, spectrogram |-> spectrogram]]
        ELSE IF ~Float32ArrayOk(rest) THEN [status |-> "RangeError"]
        ELSE [status |-> "ok",
              example |-> [label |-> spec.label, spectrogram |-> spectrogram,
                           rawAudio |->
                               [sampleRateHz |-> spec.rawAudioSampleRateHz,
                                data |-> Float32Array(rest)]]]

serializedExamples2ArrayBuffer(manifest, data) ==
    LET manifestBuffer == manifest2Bytes(manifest)
        headerBuffer ==
            concatenateArrayBuffers(
                <<DATASET_SERIALIZATION_DESCRIPTOR,
                  BufferOf(<<DATASET_SERIALIZATION_VERSION>>),
                  BufferOf(<<Len(manifestBuffer)>>)>>)
    IN  concatenateArrayBuffers(<<headerBuffer, manifestBuffer, data>>)

\* a decoder that compares only the first four bytes of the descriptor
arrayBuffer2SerializedExamples_FirstFourBytes(buffer) ==
    LET descriptorLength == Len(DATASET_SERIALIZATION_DESCRIPTOR)
        manifestBeginByte == descriptorLength + 8
    IN  IF Slice(buffer, 0, 4) # SubSeq(DATASET_SERIALIZATION_DESCRIPTOR, 1, 4)
        THEN [status |-> "assert"]
        ELSE IF Len(buffer) < manifestBeginByte
        THEN [status |-> "RangeError"]
        ELSE LET manifestLength ==
                     Value32(SubSeq(buffer, descriptorLength + 5,
                                    manifestBeginByte))
                 offset == manifestBeginByte + manifestLength
                 manifestBytes == Slice(buffer, manifestBeginByte, offset)
             IN  IF ~ManifestBytesOk(manifestBytes)
                 THEN [status |-> "SyntaxError"]
                 ELSE [status |-> "ok",
                       manifest |-> bytes2Manifest(manifestBytes),
                       data |-> Slice(buffer, offset, Len(buffer))]

arrayBuffer2SerializedExamples(buffer) ==
    LET descriptorLength == Len(DATASET_SERIALIZATION_DESCRIPTOR)
        manifestBeginByte == descriptorLength + 8
    IN  IF Slice(buffer, 0, descriptorLength)
               # DATASET_SERIALIZATION_DESCRIPTOR
        THEN [status |-> "assert"]
        ELSE IF Len(buffer) < manifestBeginByte
        THEN [status |-> "RangeError"]
        ELSE LET manifestLength ==
                     Value32(SubSeq(buffer, descriptorLength + 5,
                                    manifestBeginByte))
                 offset == manifestBeginByte + manifestLength
                 manifestBytes == Slice(buffer, manifestBeginByte, offset)
             IN  IF ~ManifestBytesOk(manifestBytes)
                 THEN [status |-> "SyntaxError"]
                 ELSE [status |-> "ok",
                       manifest |-> bytes2Manifest(manifestBytes),
                       data |-> Slice(buffer, offset, Len(buffer))]

\* a walk over the vocabulary from its last label to its first
RECURSIVE IdsInOrder_Backwards(_, _)
IdsInOrder_Backwards(d, vocab) ==
    IF vocab = <<>> THEN <<>>
    ELSE IdsInOrder_Backwards(d, Tail(vocab)) \o d.label2Ids[Head(vocab)]

\* the ids visited by the two nested loops of serialize(); Undefined where
\* this.label2Ids[label] is undefined
RECURSIVE IdsInOrder(_, _)
IdsInOrder(d, vocab) ==
    IF vocab = <<>> THEN <<>>
    ELSE d.label2Ids[Head(vocab)] \o IdsInOrder(d, Tail(vocab))

RECURSIVE SerializeAll(_, _)
SerializeAll(d, ids) ==
    IF ids = <<>> THEN [status |-> "ok", manifest |-> <<>>, buffers |-> <<>>]
    ELSE LET artifact == serializeExample(Lookup(d, Head(ids)))
             more == SerializeAll(d, Tail(ids))
         IN  IF artifact.status # "ok" THEN [status |-> artifact.status]
             ELSE IF more.status # "ok" THEN [status |-> more.status]
             ELSE [status |-> "ok",
                   manifest |-> <<artifact.spec>> \o more.manifest,
                   buffers |-> <<artifact.data>> \o more.buffers]

serialize(d) ==
    LET vocab == getVocabulary(d)
    IN  IF empty(d) THEN [status |-> "assert"]
        ELSE IF \E i \in 1 .. Len(vocab) : vocab[i] \notin DOMAIN d.label2Ids
        THEN [status |-> "TypeError"]
        ELSE LET all == SerializeAll(d, IdsInOrder(d, vocab))
             IN  IF all.status # "ok" THEN [status |-> all.status]
                 ELSE [status |-> "ok",
                       buffer |-> serializedExamples2ArrayBuffer(
                                      all.manifest,
                                      concatenateArrayBuffers(all.buffers))]

\* the loop of the constructor over artifacts.manifest
RECURSIVE ConstructAll(_, _, _, _, _, _)
ConstructAll(d, manifest, data, offset, ctr, uids) ==
    IF manifest = <<>>
    THEN [status |-> "ok", d |-> d, ctr |-> ctr, uids |-> uids]
    ELSE LET spec == Head(manifest)
             byteLen ==
                 4 * (spec.spectrogramNumFrames * spec.spectrogramFrameSize
                      + (IF HasRawSpec(spec) THEN spec.rawAudioNumSamples
                         ELSE 0))
             ex == deserializeExample(spec,
                                      Slice(data, offset, offset + byteLen))
         IN  IF ex.status # "ok"
             THEN [status |-> ex.status, d |-> d, ctr |-> ctr, uids |-> uids]
             ELSE LET r == addExample(d, ex.example, ctr)
                  IN  IF r.status # "ok"
                      THEN [status |-> r.status, d |-> r.d, ctr |-> r.ctr,
                            uids |-> uids]
                      ELSE ConstructAll(r.d, Tail(manifest), data,
                                        offset + byteLen, r.ctr,
                                        Append(uids, r.uid))

\* new Dataset(serialized)
Dataset(serialized, ctr) ==
    LET artifacts == arrayBuffer2SerializedExamples(serialized)
    IN  IF artifacts.status # "ok"
        THEN [status |-> artifacts.status, d |-> EmptyDataset, ctr |-> ctr,
              uids |-> <<>>]
        ELSE ConstructAll(EmptyDataset, artifacts.manifest, artifacts.data, 0,
                          ctr, <<>>)

(***************************************************************************)
(* Frame counts and intensity                                              *)
(***************************************************************************)
\* String(n) for an integer n >= 0, as its decimal digits
RECURSIVE Digits(_)
Digits(n) == IF n < 10 THEN <<n>> ELSE Digits(n \div 10) \o <<n % 10>>

\* a < b for strings compared by code units
RECURSIVE StringLess(_, _)
StringLess(a, b) ==
    IF b = <<>> THEN FALSE
    ELSE IF a = <<>> THEN TRUE
    ELSE IF Head(a) # Head(b) THEN Head(a) < Head(b)
    ELSE StringLess(Tail(a), Tail(b))

\* array.sort() without a comparator, on an array of the distinct numbers of
\* `set`: the elements are ordered by their string conversions
RECURSIVE DefaultSort(_)
DefaultSort(set) ==
    IF set = {} THEN <<>>
    ELSE LET first == CHOOSE n \in set :
                         \A m \in set \ {n} : StringLess(Digits(n), Digits(m))
         IN  <<first>> \o DefaultSort(set \ {first})

getSortedUniqueNumFrames(d) ==
    LET ids == IdsInOrder(d, getVocabulary(d))
    IN  IF \E k \in 1 .. Len(ids) : ids[k] \notin DOMAIN d.examples
        THEN [status |-> "TypeError", value |-> <<>>]
        ELSE [status |-> "ok",
              value |-> DefaultSort({NumFrames(d.examples[ids[k]].spectrogram) :
                                        k \in 1 .. Len(ids)})]

RECURSIVE SumSeq(_)
SumSeq(seq) == IF seq = <<>> THEN 0 ELSE Head(seq) + SumSeq(Tail(seq))

\* the mean of each frame. Values are bit patterns: the mean is computed for
\* patterns below 2^23 (denormals, which are proportional to their patterns)
\* whose sum the frame size divides, and for frames of one value
spectrogram2IntensityCurve(spectrogram) ==
    [i \in 1 .. NumFrames(spectrogram) |->
        SumSeq(SubSeq(spectrogram.data, (i - 1) * spectrogram.frameSize + 1,
                      i * spectrogram.frameSize))
            \div spectrogram.frameSize]

\* tensor.argMax(): the 0-based index of the first maximum
ArgMax(seq) ==
    (CHOOSE i \in 1 .. Len(seq) :
         /\ \A j \in 1 .. Len(seq) : seq[j] <= seq[i]
         /\ \A j \in 1 .. i - 1 : seq[j] < seq[i]) - 1

getMaxIntensityFrameIndex(spectrogram) ==
    ArgMax(spectrogram2IntensityCurve(spectrogram))

(***************************************************************************)
(* getSpectrogramsAsTensors                                                *)
(*                                                                         *)
(* label is Null or <<a label>>. config is a record of the optional fields *)
(* numFrames, hopFrames, normalize and shuffle (a missing config is the    *)
(* record of four Nulls). A window tensor is the record of its values, of  *)
(* the uid and window it was cut from, and of whether normalize() was      *)
(* applied to it; an element of labelIndices is <<index>>, or Null where   *)
(* the code leaves it undefined.                                           *)
(***************************************************************************)
\* the assertions on the dataset and the label, without the test of the label
\* against the vocabulary
BatchArgsOk_AnyLabel(d, label) ==
    /\ size(d) > 0
    /\ label = Null => Len(getVocabulary(d)) > 1

BatchArgsOk(d, label) ==
    /\ size(d) > 0
    /\ IF label # Null
       THEN IndexOf(getVocabulary(d), label[1]) # -1
       ELSE Len(getVocabulary(d)) > 1

\* numFrames and hopFrames as the call resolves them
ResolveFrames(d, config) ==
    LET sortedUniqueNumFrames == getSortedUniqueNumFrames(d)
        failed(status) ==
            [status |-> status, numFrames |-> 0, hopFrames |-> 0]
    IN  IF sortedUniqueNumFrames.status # "ok"
        THEN failed(sortedUniqueNumFrames.status)
        ELSE IF Len(sortedUniqueNumFrames.value) = 1
        THEN [status |-> "ok",
              numFrames |-> IF config.numFrames = Null
                            THEN sortedUniqueNumFrames.value[1]
                            ELSE config.numFrames[1],
              hopFrames |-> IF config.hopFrames = Null THEN 1
                            ELSE config.hopFrames[1]]
        ELSE IF config.numFrames = Null \/ ~(ToNumber(config.numFrames) > 0)
        THEN failed("assert")
        ELSE IF ~(config.numFrames[1] <= sortedUniqueNumFrames.value[1])
        THEN failed("assert")
        ELSE IF config.hopFrames = Null \/ ~(ToNumber(config.hopFrames) > 0)
        THEN failed("assert")
        ELSE [status |-> "ok", numFrames |-> config.numFrames[1],
              hopFrames |-> config.hopFrames[1]]

\* the (label index i, id) pairs the two nested loops visit, from the
\* (i + 1)-th label of vocab on
RECURSIVE Visits(_, _, _, _)
Visits(d, vocab, label, i) ==
    IF i >= Len(vocab) THEN <<>>
    ELSE LET currentLabel == vocab[i + 1]
             ids == d.label2Ids[currentLabel]
         IN  (IF label # Null /\ currentLabel # label[1] THEN <<>>
              ELSE [k \in 1 .. Len(ids) |->
                       [i |-> i, currentLabel |-> currentLabel, id |-> ids[k]]])
             \o Visits(d, vocab, label, i + 1)

\* snippet.slice over the frames of window, normalized on request
WindowedSnippet(uid, spectrogram, window, toNormalize) ==
    [uid |-> uid,
     window |-> window,
     data |-> SubSeq(spectrogram.data, window[1] * spectrogram.frameSize + 1,
                     window[2] * spectrogram.frameSize),
     normalized |-> toNormalize]

\* faulty variant of CollectWindows: the focus index is computed for every
\* label, the background noise tag included
RECURSIVE CollectWindows_AlwaysFocused(_, _, _, _, _, _)
CollectWindows_AlwaysFocused(d, visits, args, uniqueFrameSize, xTensors, labelIndices) ==
    IF visits = <<>>
    THEN [status |-> "ok", xTensors |-> xTensors,
          labelIndices |-> labelIndices]
    ELSE LET visit == Head(visits)
             failed(status) == [status |-> status, xTensors |-> <<>>,
                                labelIndices |-> <<>>]
         IN  IF visit.id \notin DOMAIN d.examples THEN failed("TypeError")
             ELSE LET spectrogram == d.examples[visit.id].spectrogram
                      frameSize == spectrogram.frameSize
                      snippetLength == NumFrames(spectrogram)
                      focusIndex ==
                          Some(getMaxIntensityFrameIndex(spectrogram))
                      got == getValidWindows(snippetLength, focusIndex,
                                             args.numFrames, args.hopFrames)
                      windows == got.windows
                  IN  IF uniqueFrameSize # Null
                         /\ frameSize # uniqueFrameSize[1]
                      THEN failed("assert")
                      ELSE IF got.status # "ok" THEN failed(got.status)
                      ELSE CollectWindows_AlwaysFocused(
                               d, Tail(visits), args, Some(frameSize),
                               xTensors \o
                                   [k \in 1 .. Len(windows) |->
                                       WindowedSnippet(visit.id, spectrogram,
                                                       windows[k],
                                                       args.toNormalize)],
                               labelIndices \o
                                   (IF args.label = Null
                                    THEN [k \in 1 .. Len(windows) |->
                                             Some(visit.i)]
                                    ELSE <<>>))

\* the body of the loops over `visits`; args holds label, numFrames,
\* hopFrames and toNormalize
RECURSIVE CollectWindows(_, _, _, _, _, _)
CollectWindows(d, visits, args, uniqueFrameSize, xTensors, labelIndices) ==
    IF visits = <<>>
    THEN [status |-> "ok", xTensors |-> xTensors,
          labelIndices |-> labelIndices]
    ELSE LET visit == Head(visits)
             failed(status) == [status |-> status, xTensors |-> <<>>,
                                labelIndices |-> <<>>]
         IN  IF visit.id \notin DOMAIN d.examples THEN failed("TypeError")
             ELSE LET spectrogram == d.examples[visit.id].spectrogram
                      frameSize == spectrogram.frameSize
                      snippetLength == NumFrames(spectrogram)
                      focusIndex ==
                          IF visit.currentLabel = BACKGROUND_NOISE_TAG
                          THEN Null
                          ELSE Some(getMaxIntensityFrameIndex(spectrogram))
                      got == getValidWindows(snippetLength, focusIndex,
                                             args.numFrames, args.hopFrames)
                      windows == got.windows
                  IN  IF uniqueFrameSize # Null
                         /\ frameSize # uniqueFrameSize[1]
                      THEN failed("assert")
                      ELSE IF got.status # "ok" THEN failed(got.status)
                      ELSE CollectWindows(
                               d, Tail(visits), args, Some(frameSize),
                               xTensors \o
                                   [k \in 1 .. Len(windows) |->
                                       WindowedSnippet(visit.id, spectrogram,
                                                       windows[k],
                                                       args.toNormalize)],
                               labelIndices \o
                                   (IF args.label = Null
                                    THEN [k \in 1 .. Len(windows) |->
                                             Some(visit.i)]
                                    ELSE <<>>))

\* the orders tf.util.shuffle may leave an array of n elements in: element k
\* of the result is element perm[k] of the array
ShuffleOrders(n) ==
    {perm \in [1 .. n -> 1 .. n] :
        \A j, k \in 1 .. n : perm[j] = perm[k] => j = k}

\* a shuffle of the window tensors that leaves labelIndices as it was
ShuffledBatch_TensorsOnly(xTensors, labelIndices, perm) ==
    [xTensors |-> [k \in 1 .. Len(xTensors) |-> xTensors[perm[k]]],
     labelIndices |->
         [k \in 1 .. Len(xTensors) |->
             IF k <= Len(labelIndices) THEN labelIndices[k] ELSE Null]]

\* zip, tf.util.shuffle, unzip; perm is the order the shuffle chose
ShuffledBatch(xTensors, labelIndices, perm) ==
    LET zipped == [k \in 1 .. Len(xTensors) |->
                      [x |-> xTensors[k],
                       y |-> IF k <= Len(labelIndices) THEN labelIndices[k]
                             ELSE Null]]
        shuffled == [k \in 1 .. Len(zipped) |-> zipped[perm[k]]]
    IN  [xTensors |-> [k \in 1 .. Len(shuffled) |-> shuffled[k].x],
         labelIndices |-> [k \in 1 .. Len(shuffled) |-> shuffled[k].y]]

\* tf.oneHot(indices, depth)
oneHot(indices, depth) ==
    [r \in 1 .. Len(indices) |->
        [j \in 1 .. depth |-> IF indices[r] = Some(j - 1) THEN 1 ELSE 0]]

NoTensors == [xs |-> <<>>, ys |-> Null, numFrames |-> 0, hopFrames |-> 0]

\* the window tensors and label indices before the shuffle
UnshuffledBatch(d, label, config) ==
    IF ~BatchArgsOk(d, label)
    THEN [status |-> "assert", xTensors |-> <<>>, labelIndices |-> <<>>,
          numFrames |-> 0, hopFrames |-> 0]
    ELSE LET frames == ResolveFrames(d, config)
             got == CollectWindows(
                        d, Visits(d, getVocabulary(d), label, 0),
                        [label |-> label, numFrames |-> frames.numFrames,
                         hopFrames |-> frames.hopFrames,
                         toNormalize |-> IF config.normalize = Null THEN TRUE
                                         ELSE config.normalize[1]],
                        Null, <<>>, <<>>)
         IN  IF frames.status # "ok"
             THEN [status |-> frames.status, xTensors |-> <<>>,
                   labelIndices |-> <<>>, numFrames |-> 0, hopFrames |-> 0]
             ELSE [status |-> got.status, xTensors |-> got.xTensors,
                   labelIndices |-> got.labelIndices,
                   numFrames |-> frames.numFrames,
                   hopFrames |-> frames.hopFrames]

ToShuffle(config) == IF config.shuffle = Null THEN TRUE ELSE config.shuffle[1]

\* the shuffle and the stacking of a batch collected without error;
\* out.numFrames and out.hopFrames record the resolved values next to the
\* tensors the code returns
StackBatch(d, label, config, batch, perm) ==
    LET final == IF ToShuffle(config)
                 THEN ShuffledBatch(batch.xTensors, batch.labelIndices, perm)
                 ELSE [xTensors |-> batch.xTensors,
                       labelIndices |-> batch.labelIndices]
    IN  [xs |-> final.xTensors,
         ys |-> IF label = Null
                THEN oneHot(final.labelIndices, Len(getVocabulary(d)))
                ELSE Null,
         numFrames |-> batch.numFrames,
         hopFrames |-> batch.hopFrames]

\* perm is the order tf.util.shuffle chooses
getSpectrogramsAsTensors(d, label, config, perm) ==
    LET batch == UnshuffledBatch(d, label, config)
    IN  IF batch.status # "ok"
        THEN [status |-> batch.status, out |-> NoTensors]
        ELSE [status |-> "ok",
              out |-> StackBatch(d, label, config, batch, perm)]

(***************************************************************************)
(* Calls on the dataset objects                                            *)
(***************************************************************************)
Uids == 1 .. MaxUid

NoRet == [op |-> "none", ds |-> "A", status |-> "ok"]

Store(s, d) ==
    /\ examples' = [examples EXCEPT ![s] = d.examples]
    /\ label2Ids' = [label2Ids EXCEPT ![s] = d.label2Ids]

\* s = new Dataset()
NewDataset(s) ==
    /\ Store(s, EmptyDataset)
    /\ ret' = [op |-> "new", ds |-> s, status |-> "ok"]
    /\ UNCHANGED <<uidCounter, issued, winVars>>

AddExample(s, example) ==
    /\ uidCounter <= MaxUid
    /\ LET r == addExample(DS(s), example, uidCounter)
       IN  /\ Store(s, r.d)
           /\ uidCounter' = r.ctr
           /\ issued' = IF r.status = "ok" THEN Append(issued, r.uid)
                         ELSE issued
           /\ ret' = [op |-> "addExample", ds |-> s, status |-> r.status,
                      uid |-> IF r.status = "ok" THEN Some(r.uid) ELSE Null]
    /\ UNCHANGED winVars

RemoveExample(s, uid) ==
    /\ LET r == removeExample(DS(s), uid)
       IN  /\ Store(s, r.d)
           /\ ret' = [op |-> "removeExample", ds |-> s, status |-> r.status,
                      uid |-> uid]
    /\ UNCHANGED <<uidCounter, issued, winVars>>

Clear(s) ==
    /\ Store(s, clear(DS(s)))
    /\ ret' = [op |-> "clear", ds |-> s, status |-> "ok"]
    /\ UNCHANGED <<uidCounter, issued, winVars>>

\* s.merge(t)
Merge(s, t) ==
    /\ LET r == merge(DS(s), DS(t), s = t, uidCounter)
       IN  /\ r.ctr <= MaxUid + 1
           /\ Store(s, r.d)
           /\ uidCounter' = r.ctr
           /\ issued' = issued \o r.uids
           /\ ret' = [op |-> "merge", ds |-> s, status |-> r.status,
                      from |-> t]
    /\ UNCHANGED winVars

Serialize(s) ==
    /\ LET r == serialize(DS(s))
       IN  ret' = [op |-> "serialize", ds |-> s, status |-> r.status,
                   buffer |-> IF r.status = "ok" THEN r.buffer ELSE <<>>]
    /\ UNCHANGED <<examples, label2Ids, uidCounter, issued, winVars>>

\* what may happen to a serialized buffer before it is handed to the
\* constructor: nothing, one byte of the descriptor changed, all but the first
\* bytes lost, or the last bytes lost
NoDamage == [kind |-> "none", n |-> 0]

Damages ==
    {NoDamage}
    \cup {[kind |-> "flip", n |-> i] : i \in {0, 7}}
    \cup {[kind |-> "keep", n |-> k] : k \in {0, 7}}
    \cup {[kind |-> "drop", n |-> k] : k \in {1, 4}}

Damage(buffer, damage) ==
    CASE damage.kind = "none" -> buffer
      [] damage.kind = "flip" ->
             [i \in 1 .. Len(buffer) |->
                 IF i = damage.n + 1 THEN (buffer[i] + 1) % 256 ELSE buffer[i]]
      [] damage.kind = "keep" -> Slice(buffer, 0, damage.n)
      [] damage.kind = "drop" -> Slice(buffer, 0, Len(buffer) - damage.n)

\* every spectrogram of d holds a whole number of frames; the model computes
\* frame counts in integers and follows no dataset beyond these
WholeFrames(d) ==
    \A uid \in DOMAIN d.examples :
        Len(d.examples[uid].spectrogram.data)
            % d.examples[uid].spectrogram.frameSize = 0

\* t = new Dataset(buffer), with the buffer the preceding serialize() returned
\* or a damaged copy of it; a constructor that throws leaves t as it was
Construct(t, damage) ==
    /\ ret.op = "serialize"
    /\ ret.status = "ok"
    /\ LET r == Dataset(Damage(ret.buffer, damage), uidCounter)
       IN  /\ r.ctr <= MaxUid + 1
           /\ r.status = "ok" => WholeFrames(r.d)
           /\ IF r.status = "ok"
              THEN Store(t, r.d)
              ELSE UNCHANGED <<examples, label2Ids>>
           /\ uidCounter' = r.ctr
           /\ issued' = issued \o r.uids
           /\ ret' = [op |-> "construct", ds |-> t, status |-> r.status,
                      from |-> ret.ds, damage |-> damage]
    /\ UNCHANGED winVars

\* arguments of getSpectrogramsAsTensors
LabelArgs == {Null} \cup {Some(l) : l \in Labels}
ConfigArgs ==
    [numFrames : {Null, Some(2), Some(9), Some(10)},
     hopFrames : {Null, Some(1)},
     normalize : {Null},
     shuffle : {Null, Some(FALSE)}]

\* the orders the shuffle of a call may choose; where nothing is shuffled
\* the empty order stands in. Batches of more than MaxShuffle tensors are
\* followed unshuffled only
ShuffleChoices(batch, config) ==
    IF batch.status # "ok" \/ ~ToShuffle(config) THEN {<<>>}
    ELSE IF Len(batch.xTensors) > MaxShuffle THEN {}
    ELSE ShuffleOrders(Len(batch.xTensors))

\* s.getSpectrogramsAsTensors(label, config), for every order its shuffle
\* may choose
GetSpectrogramsAsTensors(s, label, config) ==
    /\ LET batch == UnshuffledBatch(DS(s), label, config)
       IN  \E perm \in ShuffleChoices(batch, config) :
               ret' = [op |-> "getSpectrogramsAsTensors", ds |-> s,
                       status |-> batch.status, label |-> label,
                       config |-> config,
                       out |-> getSpectrogramsAsTensors(DS(s), label, config,
                                                        perm).out]
    /\ UNCHANGED <<examples, label2Ids, uidCounter, issued, winVars>>

Init ==
    /\ examples = [s \in Datasets |-> EmptyMap]
    /\ label2Ids = [s \in Datasets |-> EmptyMap]
    /\ uidCounter = 1
    /\ issued = <<>>
    /\ ret = NoRet
    /\ winArgs = [snippetLength |-> 1, focusIndex |-> Null,
                  windowLength |-> 1, windowHop |-> 1]
    /\ winRet = NoCall
    /\ winFrame = EntryFrame

Next ==
    \/ \E s \in Datasets : NewDataset(s)
    \/ \E s \in Datasets, example \in ExamplePool \cup BadExamplePool :
           AddExample(s, example)
    \/ \E s \in Datasets, uid \in Uids : RemoveExample(s, uid)
    \/ \E s \in Datasets : Clear(s)
    \/ \E s, t \in Datasets : Merge(s, t)
    \/ \E s \in Datasets : Serialize(s)
    \/ \E t \in Datasets : Construct(t, NoDamage)

Spec == Init /\ [][Next]_vars

\* the constructor fed with buffers that were damaged on their way
CodecNext ==
    \/ \E s \in Datasets, example \in ExamplePool : AddExample(s, example)
    \/ \E s \in Datasets : Clear(s)
    \/ \E s \in Datasets : Serialize(s)
    \/ \E t \in Datasets, damage \in Damages : Construct(t, damage)

CodecSpec == Init /\ [][CodecNext]_vars

\* one dataset filled, emptied and asked for tensors. The call changes
\* nothing of the dataset, so it is followed from the states other calls
\* lead to and not again from the states it leads to itself
BatchDatasets == {"A"}

BatchNext ==
    \/ \E s \in BatchDatasets, example \in BatchExamplePool :
           AddExample(s, example)
    \/ \E s \in BatchDatasets, uid \in Uids : RemoveExample(s, uid)
    \/ \E s \in BatchDatasets : Clear(s)
    \/ /\ ret.op # "getSpectrogramsAsTensors"
       /\ \E s \in BatchDatasets, label \in LabelArgs, config \in ConfigArgs :
              GetSpectrogramsAsTensors(s, label, config)

BatchSpec == Init /\ [][BatchNext]_vars

WinInit ==
    /\ examples = [s \in Datasets |-> EmptyMap]
    /\ label2Ids = [s \in Datasets |-> EmptyMap]
    /\ uidCounter = 1
    /\ issued = <<>>
    /\ ret = NoRet
    /\ winArgs \in WinArgsSet
    /\ winRet = NoCall
    /\ winFrame = EntryFrame

WinNext == CallGetValidWindows

WinSpec == WinInit /\ [][WinNext]_vars

WinStepNext ==
    \/ EnterGetValidWindows
    \/ ScanStep
    \/ BackStep
    \/ ForwardStep

\* the call runs to completion on the single JavaScript thread: a statement
\* that can execute does
WinStepSpec == WinInit /\ [][WinStepNext]_vars /\ WF_vars(WinStepNext)

(***************************************************************************)
(* Claims about getValidWindows (checked under WinSpec)                    *)
(***************************************************************************)
WinCalled == winRet # NoCall
WinFocused == winArgs.focusIndex # Null

\* the documented preconditions of getValidWindows
WinPre ==
    /\ winArgs.snippetLength >= 1
    /\ winArgs.windowLength >= 1
    /\ winArgs.windowLength <= winArgs.snippetLength
    /\ winArgs.windowHop >= 1
    /\ WinFocused => /\ winArgs.focusIndex[1] >= 0
                     /\ winArgs.focusIndex[1] < winArgs.snippetLength

\* C4: with a valid input and a focus index, every returned window has length
\* windowLength, lies within [0, snippetLength) and contains the focus index,
\* and consecutive windows start exactly windowHop apart, ascending.
C4_FocusedWindowsContainFocus ==
    (WinCalled /\ WinPre /\ WinFocused) =>
        LET w == winRet.windows
            f == winArgs.focusIndex[1]
        IN  /\ winRet.status = "ok"
            /\ \A i \in 1 .. Len(w) :
                   /\ w[i][2] - w[i][1] = winArgs.windowLength
                   /\ 0 <= w[i][1]
                   /\ w[i][2] <= winArgs.snippetLength
                   /\ w[i][1] <= f
                   /\ f < w[i][2]
            /\ \A i \in 1 .. Len(w) - 1 :
                   w[i + 1][1] = w[i][1] + winArgs.windowHop

\* a focused call with a hop of 2 or more that returned several windows after
\* walking back from the centered position
C4_Witness ==
    /\ WinCalled /\ WinPre /\ WinFocused
    /\ winArgs.windowLength < winArgs.snippetLength
    /\ winArgs.windowHop >= 2
    /\ Len(winRet.windows) >= 3
    /\ winRet.windows[1][1] > 0
    /\ winRet.windows[1][1]
           < winArgs.focusIndex[1] - (winArgs.windowLength \div 2)

\* C5: with a valid input and no focus index, the result is exactly the
\* windows [k*H, k*H + W) for k = 0 .. floor((L - W) / H), in that order.
C5_UnfocusedWindowsEvenlySpaced ==
    (WinCalled /\ WinPre /\ ~WinFocused) =>
        LET L == winArgs.snippetLength
            W == winArgs.windowLength
            H == winArgs.windowHop
        IN  /\ winRet.status = "ok"
            /\ winRet.windows =
                   [k \in 1 .. ((L - W) \div H) + 1 |->
                       <<(k - 1) * H, (k - 1) * H + W>>]

\* the call getValidWindows(9, null, 3, 3) and its result
C5_Witness ==
    /\ WinCalled
    /\ winArgs = [snippetLength |-> 9, focusIndex |-> Null,
                  windowLength |-> 3, windowHop |-> 3]
    /\ winRet.windows = << <<0, 3>>, <<3, 6>>, <<6, 9>> >>

\* C6: when windowLength equals snippetLength the result is the single window
\* [0, snippetLength), for every hop and every focus index, given or not.
C6_FullLengthSingleWindow ==
    (WinCalled /\ WinPre /\ winArgs.windowLength = winArgs.snippetLength) =>
        /\ winRet.status = "ok"
        /\ winRet.windows = << <<0, winArgs.snippetLength>> >>

C6_Witness ==
    /\ WinCalled /\ WinPre /\ WinFocused
    /\ winArgs.windowLength = winArgs.snippetLength
    /\ winArgs.windowHop > 1
    /\ winArgs.focusIndex[1] = winArgs.snippetLength - 1
    /\ winRet.windows = << <<0, winArgs.snippetLength>> >>

\* C7: the call fails, returning no windows, exactly when a precondition is
\* violated.
C7_FailsIffPreconditionViolated ==
    WinCalled =>
        /\ winRet.status = "assert" <=> ~WinPre
        /\ winRet.status = "ok" <=> WinPre
        /\ winRet.status = "assert" => winRet.windows = <<>>

\* a call rejected only for its focus index, at or past the snippet's end
C7_Witness ==
    /\ WinCalled
    /\ winArgs.snippetLength >= 1
    /\ winArgs.windowLength >= 1
    /\ winArgs.windowLength <= winArgs.snippetLength
    /\ winArgs.windowHop >= 1
    /\ WinFocused
    /\ winArgs.focusIndex[1] >= winArgs.snippetLength
    /\ winRet.status = "assert"

(***************************************************************************)
(* Claims about the Dataset (checked under Spec)                           *)
(***************************************************************************)
Range(seq) == {seq[i] : i \in 1 .. Len(seq)}
DSnext(s) == [examples |-> examples'[s], label2Ids |-> label2Ids'[s]]

\* the label index and the primary map hold the same ids, each id in the bucket
\* of its example's label, and no bucket is empty
IndexConsistent(d) ==
    /\ UNION {Range(d.label2Ids[l]) : l \in DOMAIN d.label2Ids}
           = DOMAIN d.examples
    /\ \A uid \in DOMAIN d.examples :
           /\ d.examples[uid].label \in DOMAIN d.label2Ids
           /\ uid \in Range(d.label2Ids[d.examples[uid].label])
    /\ \A l \in DOMAIN d.label2Ids :
           /\ d.label2Ids[l] # <<>>
           /\ \A uid \in Range(d.label2Ids[l]) :
                  uid \in DOMAIN d.examples => d.examples[uid].label = l

\* C1: in every reachable state the label index and the primary map of every
\* dataset hold the same ids, each id sits in the bucket of its example's
\* label, and no label bucket is empty.
C1_LabelIndexMatchesExamples == \A s \in Datasets : IndexConsistent(DS(s))

\* the examples getExamples returns for a label, without their uids
ExamplesOf(d, label) ==
    LET got == getExamples(d, Some(label))
    IN  [i \in 1 .. Len(got.output) |-> got.output[i].example]

\* the dataset holding just `example`, added under `uid`
Singleton(example, uid) == addExample(EmptyDataset, example, uid).d

\* C2: after clear() both the examples and the label index are empty (size 0,
\* empty vocabulary, getExamples fails for every label), and an example added
\* next is the only one getExamples returns and serialize writes.
C2_ClearEmptiesExamplesAndIndex ==
    /\ [](ret.op = "clear" =>
            LET d == DS(ret.ds)
            IN  /\ size(d) = 0
                /\ getVocabulary(d) = <<>>
                /\ DOMAIN d.label2Ids = {}
                /\ \A l \in Labels : getExamples(d, Some(l)).status = "assert")
    /\ [][(/\ ret.op = "clear"
           /\ ret'.op = "addExample"
           /\ ret'.ds = ret.ds
           /\ ret'.status = "ok") =>
            LET d == DSnext(ret.ds)
                uid == ret'.uid[1]
                example == d.examples[uid]
                got == getExamples(d, Some(example.label))
            IN  /\ got.status = "ok"
                /\ got.output = <<[uid |-> uid, example |-> example]>>
                /\ serialize(d) = serialize(Singleton(example, uid))]_vars

\* two datasets with the same counts, the same vocabulary and, per label, the
\* same examples in the same order (uids aside)
SameContents(d1, d2) ==
    /\ getExampleCounts(d1) = getExampleCounts(d2)
    /\ getVocabulary(d1) = getVocabulary(d2)
    /\ \A l \in Range(getVocabulary(d1)) :
           /\ getExamples(d1, Some(l)).status = "ok"
           /\ getExamples(d2, Some(l)).status = "ok"
           /\ ExamplesOf(d1, l) = ExamplesOf(d2, l)

RoundTrips(d) ==
    LET out == serialize(d)
    IN  /\ out.status = "ok"
        /\ LET back == Dataset(out.buffer, uidCounter)
           IN  /\ back.status = "ok"
               /\ SameContents(back.d, d)

\* C3: for every non-empty dataset, however reached, the dataset constructed
\* from serialize()'s buffer has the same example counts, the same vocabulary
\* and per label the same examples in the same order; only uids may differ.
C3_SerializeRoundTrip ==
    \A s \in Datasets : ~empty(DS(s)) => RoundTrips(DS(s))

\* the round trip does hold for every dataset whose label index is consistent
RoundTripWhenConsistent ==
    \A s \in Datasets :
        (~empty(DS(s)) /\ IndexConsistent(DS(s))) => RoundTrips(DS(s))

\* C8: addExample fails when the example is null or its label is null or
\* empty, and then examples, label2Ids and the uid generator are unchanged and
\* no uid is returned.
C8_AddRejectsBadExample ==
    [][\A s \in Datasets, example \in BadExamplePool :
           AddExample(s, example) =>
               /\ ret'.status = "assert"
               /\ ret'.uid = Null
               /\ UNCHANGED <<examples, label2Ids, uidCounter, issued>>]_vars

\* a rejected add on a dataset that holds examples
C8_Witness ==
    /\ ret.op = "addExample"
    /\ ret.status = "assert"
    /\ ~empty(DS(ret.ds))

\* C9: every uid addExample returns (called directly, by merge or by the
\* constructor) differs from every uid returned before, in any dataset.
C9_UidsNeverReused ==
    \A i, j \in 1 .. Len(issued) : i # j => issued[i] # issued[j]

\* a uid handed out after an earlier one was removed or cleared away
C9_Witness ==
    /\ ret.op \in {"addExample", "merge", "construct"}
    /\ ret.status = "ok"
    /\ Len(issued) >= 2
    /\ \E u \in Range(issued) : \A s \in Datasets : u \notin DOMAIN examples[s]

Without(seq, x) == SelectSeq(seq, LAMBDA y : y # x)

\* C10: removeExample of a uid the dataset holds removes exactly that example
\* from examples and from its bucket: the size drops by 1, every other example
\* keeps its uid, label and place, and the label leaves the vocabulary and the
\* label index if and only if the removed example was the last of its label.
C10_RemoveExactlyOne ==
    [][\A s \in Datasets, uid \in Uids :
           (RemoveExample(s, uid) /\ uid \in DOMAIN examples[s]) =>
               LET before == DS(s)
                   after == DSnext(s)
                   label == before.examples[uid].label
                   wasLast == \A u \in DOMAIN before.examples \ {uid} :
                                  before.examples[u].label # label
               IN  /\ ret'.status = "ok"
                   /\ size(after) = size(before) - 1
                   /\ after.examples = DeleteKey(before.examples, uid)
                   /\ \A l \in DOMAIN before.label2Ids \ {label} :
                          /\ l \in DOMAIN after.label2Ids
                          /\ after.label2Ids[l] = before.label2Ids[l]
                   /\ label \in DOMAIN after.label2Ids =>
                          after.label2Ids[label]
                              = Without(before.label2Ids[label], uid)
                   /\ (label \notin Range(getVocabulary(after))) <=> wasLast
                   /\ (label \notin DOMAIN after.label2Ids) <=> wasLast]_vars

\* removeExample does behave so on every dataset whose label index is consistent
RemoveWhenConsistent ==
    [][\A s \in Datasets, uid \in Uids :
           (/\ RemoveExample(s, uid)
            /\ uid \in DOMAIN examples[s]
            /\ IndexConsistent(DS(s))) =>
               LET before == DS(s)
                   after == DSnext(s)
                   label == before.examples[uid].label
                   wasLast == \A u \in DOMAIN before.examples \ {uid} :
                                  before.examples[u].label # label
               IN  /\ ret'.status = "ok"
                   /\ after.examples = DeleteKey(before.examples, uid)
                   /\ IndexConsistent(after)
                   /\ (label \notin Range(getVocabulary(after))) <=> wasLast
                   /\ (label \notin DOMAIN after.label2Ids) <=> wasLast]_vars

\* C11: removeExample of a uid the dataset does not hold (never added, already
\* removed, or dropped by clear) throws and leaves examples, label2Ids and the
\* uid generator unchanged; so the second of two removals of a uid throws.
C11_RemoveUnknownThrows ==
    [][\A s \in Datasets, uid \in Uids :
           (RemoveExample(s, uid) /\ uid \notin DOMAIN examples[s]) =>
               /\ ret'.status = "throw"
               /\ UNCHANGED <<examples, label2Ids, uidCounter, issued>>]_vars

\* a removal that threw for a uid handed out earlier whose bucket entry
\* outlived a clear, while the dataset holds other examples
C11_Witness ==
    /\ ret.op = "removeExample"
    /\ ret.status = "throw"
    /\ ret.uid \in Range(issued)
    /\ ret.uid \notin DOMAIN examples[ret.ds]
    /\ \E l \in DOMAIN label2Ids[ret.ds] :
           ret.uid \in Range(label2Ids[ret.ds][l])
    /\ ~empty(DS(ret.ds))

\* getExampleCounts()[label], 0 for a label it does not list
CountOf(d, label) ==
    LET counts == getExampleCounts(d)
    IN  IF label \in DOMAIN counts THEN counts[label] ELSE 0

\* what s.merge(t) is to do to s = before/after and t = other/otherAfter
MergedInto(before, after, other, otherAfter, old) ==
    /\ size(after) = size(before) + size(other)
    /\ \A l \in Labels :
           CountOf(after, l) = CountOf(before, l) + CountOf(other, l)
    /\ \A uid \in DOMAIN before.examples :
           /\ uid \in DOMAIN after.examples
           /\ after.examples[uid] = before.examples[uid]
    /\ \A uid \in DOMAIN after.examples \ DOMAIN before.examples :
           /\ uid \notin old
           /\ uid \notin DOMAIN other.examples
    /\ otherAfter = other

\* C12: for two distinct datasets, s.merge(t) succeeds and leaves s with
\* size(s) + size(t) examples, per label the sum of the two example counts,
\* the merged examples under uids never handed out before, and t (examples
\* and label index) as it was.
C12_MergeAddsAll ==
    [][\A s, t \in Datasets :
           (Merge(s, t) /\ s # t) =>
               /\ ret'.status = "ok"
               /\ MergedInto(DS(s), DSnext(s), DS(t), DSnext(t),
                             Range(issued))]_vars

\* merge does behave so whenever the label index of the merged-in dataset is
\* consistent
MergeWhenConsistent ==
    [][\A s, t \in Datasets :
           (Merge(s, t) /\ s # t /\ IndexConsistent(DS(t))) =>
               /\ ret'.status = "ok"
               /\ MergedInto(DS(s), DSnext(s), DS(t), DSnext(t),
                             Range(issued))]_vars

\* a merge of two examples into a dataset that holds one
MergeWhenConsistent_Witness ==
    /\ ret.op = "merge"
    /\ ret.status = "ok"
    /\ size(DS(ret.from)) = 1
    /\ size(DS(ret.ds)) = 2

\* the uids d holds under `label`, in the order addExample handed them out
InsertionOrder(d, label) ==
    SelectSeq(issued, LAMBDA uid : /\ uid \in DOMAIN d.examples
                                   /\ d.examples[uid].label = label)

\* the examples of d by ascending label, then by insertion
RECURSIVE ByLabelThenInsertion(_, _)
ByLabelThenInsertion(d, labels) ==
    IF labels = {} THEN <<>>
    ELSE LET l == CHOOSE l \in labels :
                      \A m \in labels : LabelCode(l) <= LabelCode(m)
             uids == InsertionOrder(d, l)
         IN  [i \in 1 .. Len(uids) |-> d.examples[uids[i]]]
             \o ByLabelThenInsertion(d, labels \ {l})

\* the manifest entry spec is that of example
Describes(spec, example) ==
    /\ spec.label = example.label
    /\ spec.spectrogramFrameSize = example.spectrogram.frameSize
    /\ spec.spectrogramNumFrames * spec.spectrogramFrameSize
           = Len(example.spectrogram.data)
    /\ HasRawSpec(spec) <=> HasRawAudio(example)
    /\ HasRawAudio(example) =>
           /\ spec.rawAudioNumSamples = Len(example.rawAudio.data)
           /\ spec.rawAudioSampleRateHz = example.rawAudio.sampleRateHz

\* the payload bytes of a list of examples: per example the spectrogram
\* values, then the raw audio values if it has any
RECURSIVE PayloadOf(_)
PayloadOf(list) ==
    IF list = <<>> THEN <<>>
    ELSE LET example == Head(list)
         IN  BufferOf(example.spectrogram.data)
             \o (IF HasRawAudio(example) THEN BufferOf(example.rawAudio.data)
                 ELSE <<>>)
             \o PayloadOf(Tail(list))

SerializedInOrder(d) ==
    LET out == serialize(d)
    IN  out.status = "ok" =>
            LET artifacts == arrayBuffer2SerializedExamples(out.buffer)
                expected ==
                    ByLabelThenInsertion(
                        d, {d.examples[uid].label : uid \in DOMAIN d.examples})
                back == Dataset(out.buffer, uidCounter)
            IN  /\ artifacts.status = "ok"
                /\ Len(artifacts.manifest) = Len(expected)
                /\ \A i \in 1 .. Len(expected) :
                       Describes(artifacts.manifest[i], expected[i])
                /\ artifacts.data = PayloadOf(expected)
                /\ back.status = "ok"
                /\ serialize(back.d) = out

\* C13: a buffer serialize() returns lists the examples by label in
\* lexicographic order and within a label in insertion order, manifest entry i
\* describing payload segment i; a second serialize() of the unchanged dataset
\* returns the same bytes, and so does serialize() of the dataset constructed
\* from the buffer.
C13_SerializeOrderedAndReproducible ==
    /\ [](\A s \in Datasets : SerializedInOrder(DS(s)))
    /\ [][\A s \in Datasets :
              (Serialize(s) /\ ret.op = "serialize" /\ ret.ds = s) =>
                  ret' = ret]_vars

\* a serialize() of three examples added as yes, noise, yes, which it writes
\* as noise, yes, yes
C13_Witness ==
    /\ ret.op = "serialize"
    /\ ret.status = "ok"
    /\ size(DS(ret.ds)) = 3
    /\ \E u, v, w \in DOMAIN examples[ret.ds] :
           /\ u < v
           /\ v < w
           /\ examples[ret.ds][u].label = "yes"
           /\ examples[ret.ds][v].label = BACKGROUND_NOISE_TAG
           /\ examples[ret.ds][w].label = "yes"

\* serialize() throws its assertion on a dataset without examples and
\* returns a buffer on any other
SerializeFailsIffEmpty(d) ==
    /\ empty(d) => serialize(d).status = "assert"
    /\ ~empty(d) => serialize(d).status = "ok"

\* C14: serialize() fails exactly when the dataset holds no examples (never
\* filled, emptied by removals, or cleared) and succeeds on every dataset
\* with at least one example, whatever calls produced it.
C14_SerializeFailsIffEmpty ==
    \A s \in Datasets : SerializeFailsIffEmpty(DS(s))

\* serialize() does behave so on every dataset whose label index is
\* consistent, and on every empty dataset
SerializeFailsIffEmptyWhenConsistent ==
    \A s \in Datasets :
        (empty(DS(s)) \/ IndexConsistent(DS(s))) =>
            SerializeFailsIffEmpty(DS(s))

(***************************************************************************)
(* Claims about the constructor on damaged buffers (checked under          *)
(* CodecSpec)                                                              *)
(***************************************************************************)
\* the first bytes of buffer are not the descriptor
DescriptorMismatch(buffer) ==
    Slice(buffer, 0, Len(DATASET_SERIALIZATION_DESCRIPTOR))
        # DATASET_SERIALIZATION_DESCRIPTOR

\* C15: the constructor, given a buffer whose first 8 bytes are not exactly
\* the descriptor (a buffer of fewer than 8 bytes included), throws its
\* assertion and builds no dataset; a buffer serialize() returned always
\* begins with the descriptor and passes that assertion.
C15_DescriptorChecked ==
    /\ [][\A t \in Datasets, damage \in Damages :
              (/\ Construct(t, damage)
               /\ DescriptorMismatch(Damage(ret.buffer, damage))) =>
                  /\ ret'.status = "assert"
                  /\ UNCHANGED <<examples, label2Ids, uidCounter, issued>>]_vars
    /\ [](\A s \in Datasets :
              LET out == serialize(DS(s))
              IN  out.status = "ok" =>
                      /\ ~DescriptorMismatch(out.buffer)
                      /\ arrayBuffer2SerializedExamples(out.buffer).status
                             # "assert")

\* the constructor threw its assertion on the first seven bytes of a buffer
\* that serialize() returned for a dataset with two examples
C15_Witness ==
    /\ ret.op = "construct"
    /\ ret.status = "assert"
    /\ ret.damage = [kind |-> "keep", n |-> 7]
    /\ size(DS(ret.from)) = 2

\* the bytes a manifest declares for its examples
RECURSIVE DeclaredSpan(_)
DeclaredSpan(manifest) ==
    IF manifest = <<>> THEN 0
    ELSE 4 * (Head(manifest).spectrogramNumFrames
                  * Head(manifest).spectrogramFrameSize
              + (IF HasRawSpec(Head(manifest))
                 THEN Head(manifest).rawAudioNumSamples ELSE 0))
         + DeclaredSpan(Tail(manifest))

\* buffer decodes to a manifest and a payload shorter than the manifest
\* declares
PayloadShort(buffer) ==
    LET artifacts == arrayBuffer2SerializedExamples(buffer)
    IN  /\ artifacts.status = "ok"
        /\ Len(artifacts.data) < DeclaredSpan(artifacts.manifest)

\* C16: the constructor, given a buffer whose payload is shorter than the
\* bytes its manifest declares, throws; it never builds a dataset in which
\* an example holds fewer spectrogram or raw audio values than declared.
C16_ShortPayloadRaises ==
    [][\A t \in Datasets, damage \in Damages :
           (Construct(t, damage) /\ PayloadShort(Damage(ret.buffer, damage)))
               => ret'.status # "ok"]_vars

\* the constructor does throw when the payload is not a whole number of
\* 32-bit values
OddPayloadRaises ==
    [][\A t \in Datasets, damage \in Damages :
           (/\ Construct(t, damage)
            /\ PayloadShort(Damage(ret.buffer, damage))
            /\ damage.n % 4 # 0) => ret'.status = "RangeError"]_vars

(***************************************************************************)
(* Claims about getSpectrogramsAsTensors (checked under BatchSpec)         *)
(***************************************************************************)
\* C17: getSpectrogramsAsTensors throws its assertion, and leaves the dataset
\* as it was, when the dataset is empty, when a label is given that is not in
\* the vocabulary, and when no label is given and the vocabulary has fewer
\* than two labels.
C17_BatchArgsRejected ==
    [][ret'.op = "getSpectrogramsAsTensors" =>
           LET d == DS(ret'.ds)
               label == ret'.label
           IN  (\/ empty(d)
                \/ label # Null /\ label[1] \notin Range(getVocabulary(d))
                \/ label = Null /\ Len(getVocabulary(d)) < 2) =>
                   /\ ret'.status = "assert"
                   /\ ret'.out = NoTensors
                   /\ UNCHANGED <<examples, label2Ids, uidCounter,
                                  issued>>]_vars

\* a call rejected for a label that only the other label's examples are
\* held for
C17_Witness ==
    /\ ret.op = "getSpectrogramsAsTensors"
    /\ ret.status = "assert"
    /\ ret.label = Some("yes")
    /\ ~empty(DS(ret.ds))
    /\ getVocabulary(DS(ret.ds)) = <<BACKGROUND_NOISE_TAG>>

\* the frame counts of the examples d holds
FrameCounts(d) ==
    {NumFrames(d.examples[uid].spectrogram) : uid \in DOMAIN d.examples}

MinOf(set) == CHOOSE n \in set : \A m \in set : n <= m

\* what a call that returned tensors resolved numFrames and hopFrames to
FramesResolved(d, config, out) ==
    LET counts == FrameCounts(d)
    IN  IF Cardinality(counts) = 1
        THEN /\ config.numFrames = Null => out.numFrames = MinOf(counts)
             /\ config.numFrames # Null => out.numFrames = config.numFrames[1]
             /\ config.hopFrames = Null => out.hopFrames = 1
             /\ config.hopFrames # Null => out.hopFrames = config.hopFrames[1]
        ELSE /\ config.numFrames # Null
             /\ config.hopFrames # Null
             /\ config.numFrames[1] <= MinOf(counts)
             /\ out.numFrames = config.numFrames[1]
             /\ out.hopFrames = config.hopFrames[1]

\* C18: when all examples have one frame count F, getSpectrogramsAsTensors
\* takes F for an omitted numFrames and 1 for an omitted hopFrames; when they
\* have several frame counts the call fails unless numFrames and hopFrames
\* are both given and numFrames is at most the smallest frame count of all
\* examples of the dataset, also when a single label is asked for.
C18_FramesResolved ==
    [][(ret'.op = "getSpectrogramsAsTensors" /\ ret'.status = "ok") =>
           FramesResolved(DS(ret'.ds), ret'.config, ret'.out)]_vars

\* the number of digits of n
Width(n) == Len(Digits(n))

\* the call does resolve them so while all frame counts have as many digits
FramesResolvedWhenSameWidth ==
    [][(/\ ret'.op = "getSpectrogramsAsTensors"
        /\ ret'.status = "ok"
        /\ \A m, n \in FrameCounts(DS(ret'.ds)) : Width(m) = Width(n)) =>
           FramesResolved(DS(ret'.ds), ret'.config, ret'.out)]_vars

\* tensors returned for a dataset of examples of 2 and of 9 frames
FramesResolvedWhenSameWidth_Witness ==
    /\ ret.op = "getSpectrogramsAsTensors"
    /\ ret.status = "ok"
    /\ FrameCounts(DS(ret.ds)) = {2, 9}

\* the numbers of `set` in ascending order
RECURSIVE Ascending(_)
Ascending(set) ==
    IF set = {} THEN <<>> ELSE <<MinOf(set)>> \o Ascending(set \ {MinOf(set)})

\* C19: getSortedUniqueNumFrames returns the distinct frame counts of the
\* examples in ascending numeric order, each once, the smallest first (9 and
\* 10 frames give [9, 10]).
C19_FrameCountsAscending ==
    \A s \in BatchDatasets :
        LET sorted == getSortedUniqueNumFrames(DS(s))
        IN  sorted.status = "ok" =>
                sorted.value = Ascending(FrameCounts(DS(s)))

\* it does return them so while all frame counts have as many digits
FrameCountsAscendingWhenSameWidth ==
    \A s \in BatchDatasets :
        LET sorted == getSortedUniqueNumFrames(DS(s))
        IN  (/\ sorted.status = "ok"
             /\ \A m, n \in FrameCounts(DS(s)) : Width(m) = Width(n)) =>
                sorted.value = Ascending(FrameCounts(DS(s)))

\* the windows getValidWindows gives for the example under uid: around its
\* loudest frame, or evenly spaced for background noise
WindowsOfExample(d, uid, numFrames, hopFrames) ==
    LET example == d.examples[uid]
    IN  getValidWindows(
            NumFrames(example.spectrogram),
            IF example.label = BACKGROUND_NOISE_TAG THEN Null
            ELSE Some(getMaxIntensityFrameIndex(example.spectrogram)),
            numFrames, hopFrames).windows

RECURSIVE TotalWindows(_, _, _, _)
TotalWindows(d, uids, numFrames, hopFrames) ==
    IF uids = {} THEN 0
    ELSE LET uid == CHOOSE u \in uids : TRUE
         IN  Len(WindowsOfExample(d, uid, numFrames, hopFrames))
             + TotalWindows(d, uids \ {uid}, numFrames, hopFrames)

\* the place of label among the labels of d's examples in ascending order,
\* counted from 0
VocabularyIndex(d, label) ==
    Cardinality({d.examples[uid].label : uid \in DOMAIN d.examples}
                    \cap {l \in Labels : LabelCode(l) < LabelCode(label)})

\* C20: getSpectrogramsAsTensors without a label returns, for every order its
\* shuffle may choose and with the shuffle off, one row of ys per row of xs,
\* each holding a single 1, at the vocabulary index of the label of the
\* example that the window in the same row of xs was cut from; the rows are
\* as many as the windows of all examples together.
C20_LabelsAlignedWithWindows ==
    (ret.op = "getSpectrogramsAsTensors" /\ ret.status = "ok"
        /\ ret.label = Null) =>
        LET d == DS(ret.ds)
            xs == ret.out.xs
            ys == ret.out.ys
            depth == Cardinality({d.examples[uid].label :
                                     uid \in DOMAIN d.examples})
        IN  /\ Len(ys) = Len(xs)
            /\ \A r \in 1 .. Len(xs) :
                   /\ Len(ys[r]) = depth
                   /\ \A j \in 1 .. depth : ys[r][j] \in {0, 1}
                   /\ Cardinality({j \in 1 .. depth : ys[r][j] = 1}) = 1
                   /\ xs[r].uid \in DOMAIN d.examples
                   /\ ys[r][VocabularyIndex(d, d.examples[xs[r].uid].label)
                                + 1] = 1
                   /\ xs[r].window
                          \in Range(WindowsOfExample(d, xs[r].uid,
                                                     ret.out.numFrames,
                                                     ret.out.hopFrames))
            /\ \A q, r \in 1 .. Len(xs) :
                   (xs[q].uid = xs[r].uid /\ xs[q].window = xs[r].window)
                       => q = r
            /\ Len(xs) = TotalWindows(d, DOMAIN d.examples, ret.out.numFrames,
                                      ret.out.hopFrames)

\* a shuffled batch of three windows in which a window of a "yes" example
\* precedes one of a background noise example
C20_Witness ==
    /\ ret.op = "getSpectrogramsAsTensors"
    /\ ret.status = "ok"
    /\ ret.label = Null
    /\ ToShuffle(ret.config)
    /\ Len(ret.out.xs) = 3
    /\ \E q, r \in 1 .. 3 :
           /\ q < r
           /\ ret.out.ys[q] = <<0, 1>>
           /\ ret.out.ys[r] = <<1, 0>>
           /\ examples[ret.ds][ret.out.xs[q].uid].label = "yes"

\* the (uid, window) pairs of the examples uids, example by example
RECURSIVE ItemsOf(_, _, _, _)
ItemsOf(d, uids, numFrames, hopFrames) ==
    IF uids = <<>> THEN <<>>
    ELSE LET w == WindowsOfExample(d, Head(uids), numFrames, hopFrames)
         IN  [k \in 1 .. Len(w) |-> <<Head(uids), w[k]>>]
             \o ItemsOf(d, Tail(uids), numFrames, hopFrames)

\* the (uid, window) pairs of the examples carrying one of labels, by
\* ascending label, then by insertion, then by window
RECURSIVE ItemsInVisitOrder(_, _, _, _)
ItemsInVisitOrder(d, labels, numFrames, hopFrames) ==
    IF labels = {} THEN <<>>
    ELSE LET l == CHOOSE l \in labels :
                      \A m \in labels : LabelCode(l) <= LabelCode(m)
         IN  ItemsOf(d, InsertionOrder(d, l), numFrames, hopFrames)
             \o ItemsInVisitOrder(d, labels \ {l}, numFrames, hopFrames)

\* C23: a successful getSpectrogramsAsTensors cuts each included example
\* (every example, or those of the given label) into the windows of
\* getValidWindows(frame count, focus, numFrames, hopFrames), the focus being
\* absent exactly for the background noise label and otherwise the frame of
\* maximum intensity; the examples are visited by vocabulary order, then
\* insertion order (the order of xs with the shuffle off, its content with
\* the shuffle on), and xs has as many items as those windows together.
C23_WindowsPerExampleInVisitOrder ==
    (ret.op = "getSpectrogramsAsTensors" /\ ret.status = "ok") =>
        LET d == DS(ret.ds)
            included ==
                IF ret.label = Null
                THEN {d.examples[uid].label : uid \in DOMAIN d.examples}
                ELSE {ret.label[1]}
            expected == ItemsInVisitOrder(d, included, ret.out.numFrames,
                                          ret.out.hopFrames)
            got == [k \in 1 .. Len(ret.out.xs) |->
                       <<ret.out.xs[k].uid, ret.out.xs[k].window>>]
        IN  /\ Len(got) = Len(expected)
            /\ Range(got) = Range(expected)
            /\ Cardinality(Range(got)) = Len(got)
            /\ ~ToShuffle(ret.config) => got = expected

\* an unshuffled batch over both labels, two "yes" examples among them, in
\* which a background noise example contributes a window that does not hold
\* its frame of maximum intensity
C23_Witness ==
    /\ ret.op = "getSpectrogramsAsTensors"
    /\ ret.status = "ok"
    /\ ret.label = Null
    /\ ~ToShuffle(ret.config)
    /\ LET d == DS(ret.ds)
           xs == ret.out.xs
       IN  /\ Len(InsertionOrder(d, "yes")) = 2
           /\ \E q \in 1 .. Len(xs) :
                  LET example == d.examples[xs[q].uid]
                      peak == getMaxIntensityFrameIndex(example.spectrogram)
                  IN  /\ example.label = BACKGROUND_NOISE_TAG
                      /\ ~(xs[q].window[1] <= peak /\ peak < xs[q].window[2])
           /\ \E q \in 1 .. Len(xs) :
                  /\ d.examples[xs[q].uid].label = "yes"
                  /\ Len(WindowsOfExample(d, xs[q].uid, ret.out.numFrames,
                                          ret.out.hopFrames)) >= 2

(***************************************************************************)
(* Further claims about getValidWindows (checked under WinSpec)            *)
(***************************************************************************)
\* the centered start f - floor(W/2) clamped to [0, L - W]
CenteredStart(L, f, W) == Max(0, Min(L - W, f - (W \div 2)))

\* the starts on the hop grid through the centered start whose window lies in
\* the snippet and contains the focus
GridStarts(L, f, W, H) ==
    {p \in 0 .. L - W :
        /\ p <= f
        /\ f < p + W
        /\ \E j \in -L .. L : p = CenteredStart(L, f, W) + j * H}

\* C21: with a focus index and windowLength < snippetLength, the result is
\* exactly the windows starting at the positions c + j*H (c the clamped
\* centered start, j any integer) that lie in the snippet and contain the
\* focus, in ascending order, the first one starting at the smallest of them.
C21_FocusedWindowsOnHopGrid ==
    (WinCalled /\ WinPre /\ WinFocused
        /\ winArgs.windowLength < winArgs.snippetLength) =>
        LET w == winRet.windows
            W == winArgs.windowLength
            starts == GridStarts(winArgs.snippetLength, winArgs.focusIndex[1],
                                 W, winArgs.windowHop)
        IN  /\ winRet.status = "ok"
            /\ Len(w) = Cardinality(starts)
            /\ {w[i][1] : i \in 1 .. Len(w)} = starts
            /\ \A i \in 1 .. Len(w) : w[i][2] = w[i][1] + W
            /\ \A i \in 1 .. Len(w) - 1 : w[i][1] < w[i + 1][1]
            /\ starts # {} => w[1][1] = MinOf(starts)

\* a focused call with a hop of 2 or more whose centered start was clamped to
\* the snippet's end and whose first window starts left of it
C21_Witness ==
    /\ WinCalled /\ WinPre /\ WinFocused
    /\ winArgs.windowLength < winArgs.snippetLength
    /\ winArgs.windowHop >= 2
    /\ winArgs.focusIndex[1] - (winArgs.windowLength \div 2)
           > winArgs.snippetLength - winArgs.windowLength
    /\ Len(winRet.windows) >= 2
    /\ winRet.windows[1][1]
           < winArgs.snippetLength - winArgs.windowLength

\* C24: for every input satisfying the preconditions, with or without a focus
\* index, the call returns at least one window; the result is never empty.
C24_NeverEmpty ==
    (WinCalled /\ WinPre) =>
        /\ winRet.status = "ok"
        /\ Len(winRet.windows) >= 1

\* a focused call, the focus on the last frame, whose only window is the one
\* ending at the snippet's end
C24_Witness ==
    /\ WinCalled /\ WinPre /\ WinFocused
    /\ winArgs.windowLength < winArgs.snippetLength
    /\ winArgs.focusIndex[1] = winArgs.snippetLength - 1
    /\ winArgs.windowHop >= winArgs.windowLength
    /\ winRet.windows =
           << <<winArgs.snippetLength - winArgs.windowLength,
                winArgs.snippetLength>> >>

(***************************************************************************)
(* Claims about the run of getValidWindows (checked under WinStepSpec)     *)
(***************************************************************************)
\* the activation has returned or thrown
WinReturned == winFrame.pc = "return"

\* the backward walk keeps left inside [0, snippetLength - windowLength]
BackwardLeftInRange ==
    winFrame.pc = "back" =>
        /\ 0 <= winFrame.left
        /\ winFrame.left <= winArgs.snippetLength - winArgs.windowLength

\* every iteration that stays in its loop moves its index strictly towards
\* the loop's bound
LoopsProgress ==
    /\ (winFrame.pc = "scan" /\ winFrame'.pc = "scan") =>
           /\ winFrame.begin <= winArgs.snippetLength - winArgs.windowLength
           /\ winFrame'.begin > winFrame.begin
    /\ (winFrame.pc = "back" /\ winFrame'.pc = "back") =>
           /\ winFrame'.left < winFrame.left
           /\ winFrame'.left >= 0
    /\ (winFrame.pc = "forward" /\ winFrame'.pc = "forward") =>
           /\ winFrame.left <= winArgs.snippetLength - winArgs.windowLength
           /\ winFrame'.left > winFrame.left

\* C22: for every input satisfying the preconditions the call terminates: the
\* unfocused scan, the backward walk and the forward walk each finish after
\* finitely many iterations, also when windowHop >= windowLength, and during
\* the backward walk left stays within [0, snippetLength - windowLength].
C22_WalksTerminate ==
    /\ [](WinPre => BackwardLeftInRange)
    /\ [][WinPre => LoopsProgress]_vars
    /\ (WinPre ~> WinReturned)

\* a focused call with windowHop >= windowLength < snippetLength that has
\* gone through both walks and returned its windows
C22_Witness ==
    /\ WinReturned /\ WinPre /\ WinFocused
    /\ winArgs.windowLength < winArgs.snippetLength
    /\ winArgs.windowHop >= winArgs.windowLength
    /\ winRet.status = "ok"
    /\ winRet.windows = winFrame.windows
    /\ Len(winRet.windows) >= 1
    /\ winFrame.left > winArgs.focusIndex[1]

\* the statement-by-statement run returns what getValidWindows computes
StepwiseAgrees ==
    WinReturned =>
        winRet = getValidWindows(winArgs.snippetLength, winArgs.focusIndex,
                                 winArgs.windowLength, winArgs.windowHop)

====
